---- MODULE Spec2Model ----
(***************************************************************************)
(* Model of oe_python_template: the versioned web service of api.py (the   *)
(* Root Gateway `api` with the Version Modules `api_v1` and `api_v2`       *)
(* mounted under /v1 and /v2) and the command line interface of cli.py     *)
(* (`serve`, `openapi`, `echo`, `hello-world`).                            *)
(*                                                                         *)
(* Conventions.  A request path is the sequence of its segments, without a *)
(* trailing slash: <<"v1", "echo">> is /v1/echo, as the gateway routes it  *)
(* (relative to its root_path).  Text is a TLA+ string.  Python's None is  *)
(* the empty tuple <<>> and a present optional value x is <<x>>.           *)
(***************************************************************************)
EXTENDS Integers, Sequences, FiniteSets, TLC

VARIABLES
    inflight,     \* HTTP: slot -> the request being processed there, and how far it got
    environ,      \* CLI process: os.environ restricted to UVICORN_HOST / UVICORN_PORT
    api_module,   \* CLI process: the globals of oe_python_template.api, set at import
    server,       \* the uvicorn server started by `serve`, or ServerOff
    stdout,       \* CLI process: what the console printed, in order
    outcome       \* CLI process: how the command ended, and which command it was

vars == <<inflight, environ, api_module, server, stdout, outcome>>

httpVars == <<inflight>>
cliVars == <<environ, api_module, server, stdout, outcome>>

-----------------------------------------------------------------------------
(* Bounds of the model *)

\* Longest text carried by a request field.
MaxLen == 2

\* Number of requests the dispatcher processes concurrently.
MaxInflight == 2

-----------------------------------------------------------------------------
(* Text *)

Chars == {"a", " "}

RECURSIVE TextsOfLen(_)
TextsOfLen(n) ==
    IF n = 0 THEN {""}
    ELSE {s \o c : s \in TextsOfLen(n - 1), c \in Chars}

Texts == UNION {TextsOfLen(n) : n \in 0..MaxLen}

None == <<>>
Some(x) == <<x>>

-----------------------------------------------------------------------------
(* api.py: constants and the Service Core *)

TITLE == "OE Python Template"
HELLO_WORLD_EXAMPLE == "Hello, world!"
DEFAULT_UVICORN_HOST == "127.0.0.1"
DEFAULT_UVICORN_PORT == "8000"

HTTP_200_OK == 200
HTTP_307_TEMPORARY_REDIRECT == 307
HTTP_404_NOT_FOUND == 404
HTTP_405_METHOD_NOT_ALLOWED == 405
HTTP_422_UNPROCESSABLE_ENTITY == 422
HTTP_500_INTERNAL_SERVER_ERROR == 500

\* Service.healthy(): the health predicate of the Service Core.  The contract
\* allows both answers (the reference predicate answers TRUE).
ServiceHealthy == BOOLEAN

\* Service.get_hello_world(): the fixed greeting.
GetHelloWorld == "Hello, world!"

\* get_service(): a fresh Service() per call.  An instance is named by the
\* least number that names no instance of a request in flight (`named`).
get_service_shared(named) == 1

get_service(named) == CHOOSE n \in 1..(Cardinality(named) + 1) : n \notin named

-----------------------------------------------------------------------------
(* api.py: schemas *)

UP == "UP"
DOWN == "DOWN"

Health(status, reason) == [status |-> status, reason |-> reason]

HelloWorldResponse(message) == [message |-> message]

\* A pydantic model with one required string field of a minimal length.
EchoRequest_any == [name |-> "EchoRequest", field |-> "text", min_length |-> 0]

EchoRequest == [name |-> "EchoRequest", field |-> "text", min_length |-> 1]

Utterance == [name |-> "Utterance", field |-> "utterance", min_length |-> 1]

EchoResponseModel == [name |-> "EchoResponse", field |-> "message", min_length |-> 1]

\* Validation of a JSON object against such a model: the field is present and
\* long enough.  Other fields of the object are ignored.
Validates(model, obj) ==
    /\ model.field \in DOMAIN obj
    /\ Len(obj[model.field]) >= model.min_length

\* EchoResponse(message=...): construction validates the message.
EchoResponse(message) ==
    IF Validates(EchoResponseModel, [message |-> message])
    THEN [ok |-> TRUE, value |-> [message |-> message]]
    ELSE [ok |-> FALSE, value |-> [message |-> message]]

-----------------------------------------------------------------------------
(* api.py: handlers.  Each returns the status code and the body it yields. *)

Reply(status_code, body) == [status_code |-> status_code, body |-> body]

health_always200(service_healthy) ==
    IF service_healthy
    THEN Reply(HTTP_200_OK, Health(UP, None))
    ELSE Reply(HTTP_200_OK, Health(DOWN, Some("Service is unhealthy")))

health(service_healthy) ==
    LET health_result ==
            IF service_healthy
            THEN Health(UP, None)
            ELSE Health(DOWN, Some("Service is unhealthy"))
        status_code ==
            IF health_result.status = DOWN
            THEN HTTP_500_INTERNAL_SERVER_ERROR
            ELSE HTTP_200_OK
    IN  Reply(status_code, health_result)

hello_world == Reply(HTTP_200_OK, HelloWorldResponse(GetHelloWorld))

\* A JSON body is a record; the body of the server's answer to an exception
\* that no handler catches (here the ValidationError of EchoResponse, which
\* then propagates to the server) is the plain text "Internal Server Error".
FromEchoResponse(r) ==
    IF r.ok
    THEN Reply(HTTP_200_OK, r.value)
    ELSE Reply(HTTP_500_INTERNAL_SERVER_ERROR, "Internal Server Error")

echo_padded(request) == FromEchoResponse(EchoResponse(request.text \o " "))

echo(request) == FromEchoResponse(EchoResponse(request.text))

echo_v2(request) == FromEchoResponse(EchoResponse(request.utterance))

-----------------------------------------------------------------------------
(* api.py: the route tables.  FastAPI(...) registers the documentation      *)
(* routes of an application when it is constructed; the decorators then add *)
(* the handlers, the decorator nearest the function first.                  *)

Route(methods, path, endpoint) ==
    [kind |-> "route", methods |-> methods, path |-> path, target |-> endpoint]

Mount(path, app) ==
    [kind |-> "mount", methods |-> {}, path |-> path, target |-> app]

\* openapi_url, docs_url, swagger_ui_oauth2_redirect_url and redoc_url at their
\* defaults; a plain route answers HEAD wherever it answers GET.
DocRoutes ==
    << Route({"GET", "HEAD"}, <<"openapi.json">>, "openapi"),
       Route({"GET", "HEAD"}, <<"docs">>, "swagger_ui_html"),
       Route({"GET", "HEAD"}, <<"docs", "oauth2-redirect">>, "swagger_ui_redirect"),
       Route({"GET", "HEAD"}, <<"redoc">>, "redoc_html") >>

api_v1_routes_echo_get ==
    DocRoutes \o
    << Route({"GET"}, <<"health">>, "health"),
       Route({"GET"}, <<"healthz">>, "health"),
       Route({"GET"}, <<"hello-world">>, "hello_world"),
       Route({"GET", "POST"}, <<"echo">>, "echo") >>

api_v1_routes_no_alias ==
    DocRoutes \o
    << Route({"GET"}, <<"health">>, "health"),
       Route({"GET"}, <<"healthz">>, "hello_world"),
       Route({"GET"}, <<"hello-world">>, "hello_world"),
       Route({"POST"}, <<"echo">>, "echo") >>

api_v1_routes ==
    DocRoutes \o
    << Route({"GET"}, <<"health">>, "health"),
       Route({"GET"}, <<"healthz">>, "health"),
       Route({"GET"}, <<"hello-world">>, "hello_world"),
       Route({"POST"}, <<"echo">>, "echo") >>

api_v2_routes_unified ==
    DocRoutes \o
    << Route({"GET"}, <<"health">>, "health"),
       Route({"GET"}, <<"healthz">>, "health"),
       Route({"GET"}, <<"hello-world">>, "hello_world"),
       Route({"POST"}, <<"echo">>, "echo") >>

api_v2_routes ==
    DocRoutes \o
    << Route({"GET"}, <<"health">>, "health"),
       Route({"GET"}, <<"healthz">>, "health"),
       Route({"GET"}, <<"hello-world">>, "hello_world"),
       Route({"POST"}, <<"echo">>, "echo_v2") >>

api_routes ==
    DocRoutes \o << Mount(<<"v1">>, "api_v1"), Mount(<<"v2">>, "api_v2") >>

AppRoutes(app) ==
    CASE app = "api" -> api_routes
      [] app = "api_v1" -> api_v1_routes
      [] app = "api_v2" -> api_v2_routes

\* The handlers api.py defines (the documentation endpoints are the framework's).
Handlers == {"health", "hello_world", "echo", "echo_v2"}

\* The request model of an endpoint's body parameter, if it has one.
BodyModel(endpoint) ==
    CASE endpoint = "echo" -> Some(EchoRequest)
      [] endpoint = "echo_v2" -> Some(Utterance)
      [] OTHER -> None

\* Whether the endpoint declares Depends(get_service).
DependsOnService(endpoint) == endpoint = "health"

-----------------------------------------------------------------------------
(* Routing, as the router of an application decides it *)

IsPrefix(p, path) ==
    /\ Len(p) <= Len(path)
    /\ SubSeq(path, 1, Len(p)) = p

\* A route matches a path in full when the path fits and the method is one of
\* the route's, partially when only the method differs.  A mount matches, in
\* full, every path below its prefix ("/v1/..." but not "/v1" itself).
Match(route, method, path) ==
    IF route.kind = "mount"
    THEN IF IsPrefix(route.path, path) /\ Len(path) > Len(route.path)
         THEN "full" ELSE "none"
    ELSE IF route.path # path THEN "none"
         ELSE IF method \in route.methods THEN "full" ELSE "partial"

\* With redirect_slashes, a path that matches nothing is redirected when the
\* same path with a slash appended would match: here, the bare mount prefix.
RedirectsSlash(routes, path) ==
    \E i \in 1..Len(routes) : routes[i].kind = "mount" /\ routes[i].path = path

First(S) == CHOOSE i \in S : \A j \in S : i <= j

\* The first full match, else the first partial match (405), else a slash
\* redirect (307), else 404.
Resolve(routes, method, path) ==
    LET full == {i \in 1..Len(routes) : Match(routes[i], method, path) = "full"}
        partial == {i \in 1..Len(routes) : Match(routes[i], method, path) = "partial"}
    IN  IF full # {} THEN [result |-> "full", route |-> Some(routes[First(full)])]
        ELSE IF partial # {} THEN [result |-> "method_not_allowed", route |-> None]
        ELSE IF RedirectsSlash(routes, path) THEN [result |-> "redirect", route |-> None]
        ELSE [result |-> "not_found", route |-> None]

ErrorReply(result) ==
    CASE result = "method_not_allowed" ->
            Reply(HTTP_405_METHOD_NOT_ALLOWED, [detail |-> "Method Not Allowed"])
      [] result = "redirect" ->
            Reply(HTTP_307_TEMPORARY_REDIRECT, <<>>)
      [] result = "not_found" ->
            Reply(HTTP_404_NOT_FOUND, [detail |-> "Not Found"])

\* Where the gateway sends a request: the application and endpoint that will
\* run, or the error the router answers with.
Dispatch(method, path) ==
    LET top == Resolve(AppRoutes("api"), method, path)
    IN  IF top.result # "full"
        THEN [app |-> "api", endpoint |-> "none", error |-> Some(ErrorReply(top.result))]
        ELSE LET r == top.route[1]
             IN  IF r.kind = "route"
                 THEN [app |-> "api", endpoint |-> r.target, error |-> None]
                 ELSE LET rest == SubSeq(path, Len(r.path) + 1, Len(path))
                          sub == Resolve(AppRoutes(r.target), method, rest)
                      IN  IF sub.result # "full"
                          THEN [app |-> r.target, endpoint |-> "none",
                                error |-> Some(ErrorReply(sub.result))]
                          ELSE [app |-> r.target, endpoint |-> sub.route[1].target,
                                error |-> None]

-----------------------------------------------------------------------------
(* Requests *)

Methods == {"GET", "POST", "HEAD"}
Prefixes == {"v1", "v2", "v3"}
Rests == {"echo", "health", "healthz", "hello-world", "docs", "nope"}
Paths ==
    {<<p>> : p \in Prefixes \cup {"docs"}} \cup {<<p, r>> : p \in Prefixes, r \in Rests}

Fields == {"text", "utterance"}

\* A JSON object body: some of the fields, each with a text.
Bodies == UNION {[D -> Texts] : D \in SUBSET Fields}

Request(method, path, body) == [method |-> method, path |-> path, body |-> body]

HttpRequests == {Request(m, p, b) : m \in Methods, p \in Paths, b \in Bodies}

\* The requests of the concurrent runs: every handler of both versions, and
\* echo bodies that each version accepts and rejects.
EmptyBody == [f \in {} |-> ""]
ConcTexts == {"", "a "}
ConcRequests ==
    {Request("GET", <<p, r>>, EmptyBody) :
        p \in {"v1", "v2"}, r \in {"health", "healthz", "hello-world"}}
    \cup
    {Request("POST", <<p, "echo">>, [g \in {f} |-> t]) :
        p \in {"v1", "v2"}, f \in Fields, t \in ConcTexts}

Slots == 1..MaxInflight

Idle == [phase |-> "idle"]

\* A request in flight: how far it got, the application and route that routing
\* chose, the handler that was entered ("none" while none was), the Service it
\* holds, the health that Service reported, and the response once there is one.
InFlight(phase, req, app, route, endpoint, service, healthy, response) ==
    [phase |-> phase, req |-> req, app |-> app, route |-> route,
     endpoint |-> endpoint, service |-> service, healthy |-> healthy,
     response |-> response]

\* The Service instances of the requests in flight, released or not.
ServiceNames ==
    {inflight[i].service[1] :
        i \in {j \in Slots : /\ inflight[j].phase # "idle"
                             /\ inflight[j].service # None}}

\* The Service instances that exist: constructed by get_service and not yet
\* past its finally.
LiveServices ==
    {inflight[i].service[1] :
        i \in {j \in Slots : /\ inflight[j].phase \in {"ready", "handled"}
                             /\ inflight[j].service # None}}

\* The validated request object an endpoint receives: the model's field.
Parse(model, obj) == [f \in {model.field} |-> obj[f]]

ValidationError(model, obj) ==
    Reply(HTTP_422_UNPROCESSABLE_ENTITY,
          [detail |-> <<[type |-> IF model.field \in DOMAIN obj
                                  THEN "string_too_short" ELSE "missing",
                         loc |-> <<"body", model.field>>]>>])

\* The call of an endpoint, with the health its Service reports.
CallEndpoint(app, endpoint, request, service_healthy) ==
    CASE endpoint = "health" -> health(service_healthy)
      [] endpoint = "hello_world" -> hello_world
      [] endpoint = "echo" -> echo(request[1])
      [] endpoint = "echo_v2" -> echo_v2(request[1])
      [] OTHER -> Reply(HTTP_200_OK, [document |-> endpoint, of |-> app])

-----------------------------------------------------------------------------
(* HTTP: the steps of one request.  A step is what the code does between    *)
(* two returns to the event loop; steps of other requests may come between. *)

\* A request reaches the gateway.
Arrive(i, req) ==
    /\ inflight[i].phase = "idle"
    /\ inflight' = [inflight EXCEPT ![i] =
           InFlight("received", req, "none", "none", "none", None, None, None)]
    /\ UNCHANGED cliVars

\* Routing.  A request no route takes is answered by the router.  An endpoint
\* with neither a body nor a dependency (hello_world, the documentation) runs
\* at once.  Otherwise the request waits: for its body, or for its Service.
RouteRequest(i) ==
    /\ inflight[i].phase = "received"
    /\ LET req == inflight[i].req
           d == Dispatch(req.method, req.path)
       IN  inflight' = [inflight EXCEPT ![i] =
               IF d.error # None
               THEN InFlight("done", req, d.app, "none", "none", None, None, d.error)
               ELSE IF BodyModel(d.endpoint) = None /\ ~DependsOnService(d.endpoint)
               THEN InFlight("done", req, d.app, d.endpoint, d.endpoint, None, None,
                             Some(CallEndpoint(d.app, d.endpoint, None, TRUE)))
               ELSE InFlight("routed", req, d.app, d.endpoint, "none", None, None, None)]
    /\ UNCHANGED cliVars

\* The body has been received: it is validated against the endpoint's request
\* model, and the endpoint runs on the validated request, or 422 is answered
\* and no endpoint runs.
ReceiveBody(i) ==
    /\ inflight[i].phase = "routed"
    /\ BodyModel(inflight[i].route) # None
    /\ LET r == inflight[i]
           model == BodyModel(r.route)[1]
       IN  inflight' = [inflight EXCEPT ![i] =
               IF ~Validates(model, r.req.body)
               THEN InFlight("done", r.req, r.app, r.route, "none", None, None,
                             Some(ValidationError(model, r.req.body)))
               ELSE InFlight("done", r.req, r.app, r.route, r.route, None, None,
                             Some(CallEndpoint(r.app, r.route,
                                               Some(Parse(model, r.req.body)), TRUE)))]
    /\ UNCHANGED cliVars

\* Depends(get_service): the generator is entered (in the thread pool) and
\* constructs the request's Service.
EnterService(i) ==
    /\ inflight[i].phase = "routed"
    /\ DependsOnService(inflight[i].route)
    /\ LET r == inflight[i]
       IN  inflight' = [inflight EXCEPT ![i] =
               InFlight("ready", r.req, r.app, r.route, "none",
                        Some(get_service(ServiceNames)), None, None)]
    /\ UNCHANGED cliVars

\* The endpoint runs with its Service and its result becomes the response.
Run(i) ==
    /\ inflight[i].phase = "ready"
    /\ \E h \in ServiceHealthy :
          LET r == inflight[i]
          IN  inflight' = [inflight EXCEPT ![i] =
                  InFlight("handled", r.req, r.app, r.route, r.route, r.service,
                           Some(h), Some(CallEndpoint(r.app, r.route, None, h)))]
    /\ UNCHANGED cliVars

\* get_service resumes and passes its finally: the Service is released, before
\* the response starts.
Release(i) ==
    /\ inflight[i].phase = "handled"
    /\ inflight[i].service[1] \in LiveServices
    /\ inflight' = [inflight EXCEPT ![i].phase = "done"]
    /\ UNCHANGED cliVars

\* The response is sent.
Respond(i) ==
    /\ inflight[i].phase = "done"
    /\ inflight' = [inflight EXCEPT ![i] = Idle]
    /\ UNCHANGED cliVars

-----------------------------------------------------------------------------
(* api.py at import: the bind address read from the environment, and the   *)
(* catalog of the Root Gateway built from it                                *)

Hosts == {"127.0.0.1", "0.0.0.0"}
Ports == {80, 8000, 9000}

Digit(d) ==
    CASE d = 0 -> "0" [] d = 1 -> "1" [] d = 2 -> "2" [] d = 3 -> "3" [] d = 4 -> "4"
      [] d = 5 -> "5" [] d = 6 -> "6" [] d = 7 -> "7" [] d = 8 -> "8" [] d = 9 -> "9"

\* str(port) of a port that is not negative.
RECURSIVE str(_)
str(n) == IF n < 10 THEN Digit(n) ELSE str(n \div 10) \o Digit(n % 10)

\* os.environ.get(name, default)
EnvironGet(env, name, default) == IF env[name] = None THEN default ELSE env[name][1]

DocsUrl(host, port, version) ==
    "http://" \o host \o ":" \o port \o "/api/" \o version \o "/docs"

openapi_tags(host, port) ==
    << [name |-> "v1",
        description |-> "API version 1, check link on the right",
        externalDocs |-> [description |-> "sub-docs", url |-> DocsUrl(host, port, "v1")]],
       [name |-> "v2",
        description |-> "API version 2, check link on the right",
        externalDocs |-> [description |-> "sub-docs", url |-> DocsUrl(host, port, "v2")]] >>

\* The globals a process holds after `import oe_python_template.api` under `env`.
ImportApi(env) ==
    LET host == EnvironGet(env, "UVICORN_HOST", DEFAULT_UVICORN_HOST)
        port == EnvironGet(env, "UVICORN_PORT", DEFAULT_UVICORN_PORT)
    IN  [UVICORN_HOST |-> host, UVICORN_PORT |-> port,
         openapi_tags |-> openapi_tags(host, port)]

\* The version an application declares (FastAPI's default where it declares none).
AppVersion(app) ==
    CASE app = "api_v1" -> "1.0.0"
      [] app = "api_v2" -> "2.0.0"
      [] OTHER -> "0.1.0"

\* app.openapi(): the interface description of a Version Module: its identity
\* and the operations of its handlers (the documentation routes are left out).
OpenapiSchema(app) ==
    LET routes == AppRoutes(app)
        described == {j \in 1..Len(routes) : routes[j].target \in Handlers}
    IN  [info |-> [title |-> TITLE, version |-> AppVersion(app)],
         paths |-> UNION {{[path |-> routes[i].path, method |-> m,
                            operation |-> routes[i].target,
                            requestBody |-> BodyModel(routes[i].target)] :
                              m \in routes[i].methods} : i \in described}]

-----------------------------------------------------------------------------
(* cli.py *)

APIVersion == {"v1", "v2"}
OutputFormat == {"yaml", "json"}

\* What the command line may carry for --api-version and --output-format.
VersionArgs == {"v1", "v2", "V2", "v3"}
FormatArgs == {"yaml", "json", "YAML", "xml"}

\* What a direct caller may pass to openapi().
VersionValues == APIVersion \cup {"v3"}
FormatValues == OutputFormat \cup {"xml"}

Lower(s) ==
    CASE s = "V1" -> "v1" [] s = "V2" -> "v2" [] s = "V3" -> "v3"
      [] s = "YAML" -> "yaml" [] s = "JSON" -> "json" [] s = "XML" -> "xml"
      [] OTHER -> s

\* typer's choice option with case_sensitive=False: the member whose value
\* equals the argument up to case, or no member (a usage error).
Choice(enum, arg) == IF Lower(arg) \in enum THEN Some(Lower(arg)) ELSE None

PrintText(text) == [text |-> text]
PrintJson(data) == [format |-> "json", document |-> data]
PrintYaml(data) == [format |-> "yaml", document |-> data]

\* The body of openapi(): what it prints and whether it raises.  A `match`
\* without a matching case falls through; `schema` is then unbound.
Returned(printed) == [printed |-> printed, raised |-> None]
Raised(exception) == [printed |-> <<>>, raised |-> Some(exception)]

openapi_v1_only(api_version, output_format) ==
    LET schema == IF api_version \in APIVersion
                  THEN Some(OpenapiSchema("api_v1")) ELSE None
    IN  CASE output_format = "json" ->
                IF schema = None THEN Raised("UnboundLocalError")
                ELSE Returned(<<PrintJson(schema[1])>>)
          [] output_format = "yaml" ->
                IF schema = None THEN Raised("UnboundLocalError")
                ELSE Returned(<<PrintYaml(schema[1])>>)
          [] OTHER -> Returned(<<>>)

openapi(api_version, output_format) ==
    LET schema ==
            CASE api_version = "v1" -> Some(OpenapiSchema("api_v1"))
              [] api_version = "v2" -> Some(OpenapiSchema("api_v2"))
              [] OTHER -> None
    IN  CASE output_format = "json" ->
                IF schema = None THEN Raised("UnboundLocalError")
                ELSE Returned(<<PrintJson(schema[1])>>)
          [] output_format = "yaml" ->
                IF schema = None THEN Raised("UnboundLocalError")
                ELSE Returned(<<PrintYaml(schema[1])>>)
          [] OTHER -> Returned(<<>>)

ServerOff == [state |-> "off"]

NoCommand == [command |-> "none", entered |-> None, status |-> "none"]

Ended(command, entered, status) ==
    [command |-> command, entered |-> entered, status |-> status]

\* The application uvicorn.run("oe_python_template.api:api", reload=...) serves.
\* With reload, a worker process is started under the environment as it is now
\* and imports the module afresh; without, the import string resolves to the
\* module this process already holds.
ServedApi(reload, env, loaded) == IF reload THEN ImportApi(env) ELSE loaded

\* serve --host --port --watch/--no-watch
Serve(host, port, watch) ==
    /\ outcome = NoCommand
    /\ stdout' = Append(stdout,
            PrintText("Starting API server at http://" \o host \o ":" \o str(port)))
    /\ environ' = [environ EXCEPT !["UVICORN_HOST"] = Some(host),
                                  !["UVICORN_PORT"] = Some(str(port))]
    /\ server' = [state |-> "serving", host |-> host, port |-> port, reload |-> watch,
                  api |-> ServedApi(watch, environ', api_module)]
    /\ outcome' = Ended("serve", None, "running")
    /\ UNCHANGED <<api_module, inflight>>

\* The signal that ends the blocking `serve`.
Terminate ==
    /\ server # ServerOff
    /\ server' = ServerOff
    /\ outcome' = Ended("serve", None, "returned")
    /\ UNCHANGED <<environ, api_module, stdout, inflight>>

\* The body of openapi() entered with the given values.
EnterOpenapi(api_version, output_format) ==
    LET r == openapi(api_version, output_format)
    IN  /\ stdout' = stdout \o r.printed
        /\ outcome' = Ended("openapi",
                            Some([api_version |-> api_version,
                                  output_format |-> output_format]),
                            IF r.raised = None THEN "returned" ELSE "raised")
        /\ UNCHANGED <<environ, api_module, server, inflight>>

\* openapi --api-version --output-format, through the argument parser.
CliOpenapi(version_arg, format_arg) ==
    /\ outcome = NoCommand
    /\ LET v == Choice(APIVersion, version_arg)
           f == Choice(OutputFormat, format_arg)
       IN  IF v = None \/ f = None
           THEN /\ outcome' = Ended("openapi", None, "usage_error")
                /\ UNCHANGED <<environ, api_module, server, stdout, inflight>>
           ELSE EnterOpenapi(v[1], f[1])

\* openapi() called as a function, with whatever the caller passes.
CallOpenapi(api_version, output_format) ==
    /\ outcome = NoCommand
    /\ EnterOpenapi(api_version, output_format)

\* echo TEXT --json/--no-json
CliEcho(text, json) ==
    /\ outcome = NoCommand
    /\ stdout' = Append(stdout,
            IF json THEN PrintJson([text |-> text]) ELSE PrintText(text))
    /\ outcome' = Ended("echo", None, "returned")
    /\ UNCHANGED <<environ, api_module, server, inflight>>

\* hello-world
CliHelloWorld ==
    /\ outcome = NoCommand
    /\ stdout' = Append(stdout, PrintText(GetHelloWorld))
    /\ outcome' = Ended("hello-world", None, "returned")
    /\ UNCHANGED <<environ, api_module, server, inflight>>

-----------------------------------------------------------------------------
(* Specifications *)

EnvUnset == [UVICORN_HOST |-> None, UVICORN_PORT |-> None]

\* The environments a process may be started in.
Environs ==
    {[UVICORN_HOST |-> h, UVICORN_PORT |-> p] :
        h \in {None} \cup {Some(x) : x \in Hosts},
        p \in {None} \cup {Some(str(x)) : x \in Ports}}

\* After `import oe_python_template.cli` (which imports the api module) in a
\* process started under `env`: nothing served, nothing printed.
Imported(env) ==
    /\ inflight = [i \in Slots |-> Idle]
    /\ environ = env
    /\ api_module = ImportApi(env)
    /\ server = ServerOff
    /\ stdout = <<>>
    /\ outcome = NoCommand

\* The command line interface: one command per process.
Init == \E env \in Environs : Imported(env)

Next ==
    \/ \E h \in Hosts, p \in Ports, w \in BOOLEAN : Serve(h, p, w)
    \/ Terminate
    \/ \E a \in VersionArgs, f \in FormatArgs : CliOpenapi(a, f)
    \/ \E a \in VersionValues, f \in FormatValues : CallOpenapi(a, f)
    \/ \E t \in Texts, j \in BOOLEAN : CliEcho(t, j)
    \/ CliHelloWorld

Spec == Init /\ [][Next]_vars

\* The gateway answering one request at a time, over every request of the model.
InitHttp == Imported(EnvUnset)

NextHttp ==
    \/ \E req \in HttpRequests : Arrive(1, req)
    \/ RouteRequest(1)
    \/ ReceiveBody(1)
    \/ EnterService(1)
    \/ Run(1)
    \/ Release(1)
    \/ Respond(1)

SpecHttp == InitHttp /\ [][NextHttp]_vars

\* The gateway answering requests concurrently.
NextConc ==
    \/ \E i \in Slots, req \in ConcRequests : Arrive(i, req)
    \/ \E i \in Slots : RouteRequest(i)
    \/ \E i \in Slots : ReceiveBody(i)
    \/ \E i \in Slots : EnterService(i)
    \/ \E i \in Slots : Run(i)
    \/ \E i \in Slots : Release(i)
    \/ \E i \in Slots : Respond(i)

SpecConc == InitHttp /\ [][NextConc]_vars

-----------------------------------------------------------------------------
(* Properties *)

Versions == {"v1", "v2"}

\* The request field of a version's echo, as the interface documents it.
RequestField(v) == IF v = "v1" THEN "text" ELSE "utterance"

\* The response of the request in slot i is determined.
Answered(i) == inflight[i].phase \in {"handled", "done"}

ResponseOf(i) == inflight[i].response[1]

\* Routing has decided on the request in slot i.
Routed(i) == inflight[i].phase \in {"routed", "ready", "handled", "done"}

\* The request in slot i holds a Service instance.
HoldsService(i) == inflight[i].phase \in {"ready", "handled"}

IsEchoPost(i, v) ==
    /\ inflight[i].req.method = "POST"
    /\ inflight[i].req.path = <<v, "echo">>

IsHealthGet(i, v, name) ==
    /\ inflight[i].req.method = "GET"
    /\ inflight[i].req.path = <<v, name>>

\* The echo field of version v is present in the request of slot i and not empty.
CarriesText(i, v) ==
    /\ RequestField(v) \in DOMAIN inflight[i].req.body
    /\ inflight[i].req.body[RequestField(v)] # ""

\* C1: for every version v and every non-empty text s, the answer to a POST of
\* s in v's request field to v's /echo is 200 with the body {message: s}, s
\* unchanged, the response field named `message` in both versions.
C1_EchoIdentity ==
    \A i \in Slots, v \in Versions :
        (Answered(i) /\ IsEchoPost(i, v) /\ CarriesText(i, v)) =>
            /\ ResponseOf(i).status_code = 200
            /\ DOMAIN ResponseOf(i).body = {"message"}
            /\ ResponseOf(i).body.message =
                   inflight[i].req.body[RequestField(v)]

\* C1 happens: a text with leading white space was echoed by v1, and a v2
\* echo of a text with trailing white space is reachable as well.
C1_Witness ==
    \E i \in Slots :
        /\ Answered(i) /\ IsEchoPost(i, "v1")
        /\ inflight[i].req.body = [text |-> " a"]
        /\ ResponseOf(i) = Reply(200, [message |-> " a"])

\* C2: on every health route of both versions the status is 200 exactly when
\* the body says UP and 500 exactly when it says DOWN; DOWN carries the reason
\* "Service is unhealthy" and UP carries none.
C2_HealthPairing ==
    \A i \in Slots, v \in Versions, name \in {"health", "healthz"} :
        (Answered(i) /\ IsHealthGet(i, v, name)) =>
            LET r == ResponseOf(i)
            IN  /\ r.status_code \in {200, 500}
                /\ DOMAIN r.body = {"status", "reason"}
                /\ r.body.status \in {"UP", "DOWN"}
                /\ r.status_code = 200 <=> r.body.status = "UP"
                /\ r.status_code = 500 <=> r.body.status = "DOWN"
                /\ r.body.status = "DOWN" => r.body.reason = <<"Service is unhealthy">>
                /\ r.body.status = "UP" => r.body.reason = <<>>
                /\ inflight[i].healthy = <<r.body.status = "UP">>

\* C2 happens: an unhealthy Service was reported on /v2/healthz with 500.
C2_Witness ==
    \E i \in Slots :
        /\ Answered(i) /\ IsHealthGet(i, "v2", "healthz")
        /\ inflight[i].healthy = <<FALSE>>
        /\ ResponseOf(i).status_code = 500

\* C3: a POST to a version's /echo whose field is absent or empty is answered
\* 422 at the schema boundary: the echo handler is never entered for it and no
\* EchoResponse is produced.
C3_EchoRejects ==
    \A i \in Slots, v \in Versions :
        (Routed(i) /\ IsEchoPost(i, v) /\ ~CarriesText(i, v)) =>
            /\ inflight[i].endpoint = "none"
            /\ inflight[i].phase \in {"routed", "done"}
            /\ Answered(i) =>
                  /\ ResponseOf(i).status_code = 422
                  /\ "message" \notin DOMAIN ResponseOf(i).body

\* C3 happens: v2 rejected an empty utterance (the body also carried a text).
C3_Witness ==
    \E i \in Slots :
        /\ Answered(i) /\ IsEchoPost(i, "v2")
        /\ inflight[i].req.body = [text |-> "a", utterance |-> ""]
        /\ ResponseOf(i).status_code = 422

\* C4: under one version prefix, /health and /healthz are aliases of one
\* handler: both consult the Service, and for the same health state they
\* answer with the same status code and the same body.
C4_HealthAliases ==
    \A i, j \in Slots, v \in Versions :
        (/\ Answered(i) /\ IsHealthGet(i, v, "health")
         /\ Answered(j) /\ IsHealthGet(j, v, "healthz")) =>
            /\ inflight[i].endpoint = inflight[j].endpoint
            /\ inflight[i].healthy # <<>> /\ inflight[j].healthy # <<>>
            /\ inflight[i].healthy = inflight[j].healthy =>
                  /\ ResponseOf(i).status_code = ResponseOf(j).status_code
                  /\ ResponseOf(i).body = ResponseOf(j).body

\* C4 happens: /v1/health and /v1/healthz were both answered for an unhealthy
\* Service.
C4_Witness ==
    \E i, j \in Slots :
        /\ Answered(i) /\ IsHealthGet(i, "v1", "health")
        /\ Answered(j) /\ IsHealthGet(j, "v1", "healthz")
        /\ inflight[i].healthy = <<FALSE>> /\ inflight[j].healthy = <<FALSE>>

\* C5: once `serve` runs with host H and port P, the external-docs URL of
\* every catalog entry of the gateway that serves names H and P, with and
\* without --watch.
C5_DocsUrlNamesBindAddress ==
    server.state = "serving" =>
        \A k \in 1..Len(server.api.openapi_tags) :
            server.api.openapi_tags[k].externalDocs.url =
                "http://" \o server.host \o ":" \o str(server.port)
                    \o "/api/" \o server.api.openapi_tags[k].name \o "/docs"

\* The method and path (below the prefix) of every handler a version registers.
Registered(v) ==
    {<<"GET", "health">>, <<"GET", "healthz">>, <<"GET", "hello-world">>,
     <<"POST", "echo">>}

\* C6: a request reaches a handler only if its path is a mounted prefix (/v1
\* or /v2) followed by a path that, with the method, is registered on that
\* version; GET /v1/echo and every request under /v3 reach no handler and are
\* answered 404 or 405.
C6_PrefixRouting ==
    \A i \in Slots :
        /\ (/\ Routed(i)
            /\ inflight[i].route \in Handlers \/ inflight[i].endpoint \in Handlers) =>
              /\ Len(inflight[i].req.path) = 2
              /\ inflight[i].req.path[1] \in Versions
              /\ <<inflight[i].req.method, inflight[i].req.path[2]>>
                    \in Registered(inflight[i].req.path[1])
        /\ (/\ Routed(i)
            /\ \/ inflight[i].req.path[1] = "v3"
               \/ inflight[i].req.method = "GET" /\ inflight[i].req.path = <<"v1", "echo">>) =>
              /\ inflight[i].phase = "done"
              /\ inflight[i].route = "none"
              /\ inflight[i].endpoint = "none"
              /\ ResponseOf(i).status_code \in {404, 405}

\* C6 happens: GET /v1/echo was answered 405 without reaching a handler.
C6_Witness ==
    \E i \in Slots :
        /\ Answered(i)
        /\ inflight[i].req.method = "GET" /\ inflight[i].req.path = <<"v1", "echo">>
        /\ ResponseOf(i).status_code = 405

OtherVersion(v) == IF v = "v1" THEN "v2" ELSE "v1"

VersionApp(v) == IF v = "v1" THEN "api_v1" ELSE "api_v2"

VersionEcho(v) == IF v = "v1" THEN "echo" ELSE "echo_v2"

\* C7: each version's /echo accepts only its own field: a body that carries
\* only the other version's field is answered 422, an accepted body carries
\* the version's own field, and a request under one version's prefix is never
\* dispatched to the other version's application or echo handler.
C7_VersionIsolation ==
    \A i \in Slots, v \in Versions :
        /\ (/\ Answered(i) /\ IsEchoPost(i, v)
            /\ DOMAIN inflight[i].req.body = {RequestField(OtherVersion(v))}) =>
              ResponseOf(i).status_code = 422
        /\ (/\ Answered(i) /\ IsEchoPost(i, v)
            /\ ResponseOf(i).status_code = 200) =>
              RequestField(v) \in DOMAIN inflight[i].req.body
        /\ (Routed(i) /\ inflight[i].req.path[1] = v) =>
              /\ inflight[i].app # VersionApp(OtherVersion(v))
              /\ inflight[i].route # VersionEcho(OtherVersion(v))
              /\ inflight[i].endpoint # VersionEcho(OtherVersion(v))

\* C7 happens: v2 rejected a body that carries only v1's field.
C7_Witness ==
    \E i \in Slots :
        /\ Answered(i) /\ IsEchoPost(i, "v2")
        /\ inflight[i].req.body = [text |-> "a"]
        /\ inflight[i].app = "api_v2"
        /\ ResponseOf(i).status_code = 422

\* `openapi` was entered with a member of each enumeration.
EnteredLegal ==
    /\ outcome.command = "openapi"
    /\ outcome.entered # <<>>
    /\ outcome.entered[1].api_version \in {"v1", "v2"}
    /\ outcome.entered[1].output_format \in {"yaml", "json"}

C8_Emitted ==
    EnteredLegal =>
        LET v == outcome.entered[1].api_version
            f == outcome.entered[1].output_format
        IN  /\ outcome.status = "returned"
            /\ Len(stdout) = 1
            /\ stdout[1].format = f
            /\ stdout[1].document = OpenapiSchema(VersionApp(v))
            /\ stdout[1].document # OpenapiSchema(VersionApp(OtherVersion(v)))
            /\ stdout[1].document # OpenapiSchema("api")
            /\ stdout[1].document.info.version = (IF v = "v1" THEN "1.0.0" ELSE "2.0.0")
            /\ \E op \in stdout[1].document.paths :
                  /\ op.path = <<"echo">> /\ op.method = "POST"
                  /\ op.requestBody # <<>>
                  /\ op.requestBody[1].field = RequestField(v)
            /\ server = [state |-> "off"]

C8_Frame ==
    outcome'.command = "openapi" =>
        /\ environ' = environ
        /\ server' = server
        /\ api_module' = api_module

\* C8: for every api-version and output-format, `openapi` emits the interface
\* description of exactly the selected Version Module (not the other module's,
\* not the gateway's), in the selected format, exactly once, and neither
\* starts the server nor changes UVICORN_HOST / UVICORN_PORT.
C8_OpenapiExport == []C8_Emitted /\ [][C8_Frame]_vars

\* C8 happens: v2's description was printed as JSON.
C8_Witness ==
    /\ outcome.command = "openapi"
    /\ outcome.entered = <<[api_version |-> "v2", output_format |-> "json"]>>
    /\ Len(stdout) = 1
    /\ stdout[1].format = "json"
    /\ stdout[1].document.info.version = "2.0.0"

\* C9: `openapi` entered with an api-version or output-format that is no
\* member of its enumeration fails with a fatal error: it does not complete
\* normally, whether by a default or having printed nothing.
C9_IllegalValueIsFatal ==
    (/\ outcome.command = "openapi"
     /\ outcome.entered # <<>>
     /\ \/ outcome.entered[1].api_version \notin {"v1", "v2"}
        \/ outcome.entered[1].output_format \notin {"yaml", "json"}) =>
        outcome.status = "raised"

\* The response a request of the concurrent runs gets when it is the only one,
\* as the interface documents it (the body of a rejection is left open).
AloneReply(req, healthy) ==
    LET v == req.path[1]
        name == req.path[2]
    IN  CASE name \in {"health", "healthz"} ->
                IF healthy = <<TRUE>>
                THEN [status_code |-> 200, body |-> [status |-> "UP", reason |-> <<>>]]
                ELSE [status_code |-> 500,
                      body |-> [status |-> "DOWN", reason |-> <<"Service is unhealthy">>]]
          [] name = "hello-world" ->
                [status_code |-> 200, body |-> [message |-> "Hello, world!"]]
          [] name = "echo" ->
                IF /\ RequestField(v) \in DOMAIN req.body
                   /\ req.body[RequestField(v)] # ""
                THEN [status_code |-> 200,
                      body |-> [message |-> req.body[RequestField(v)]]]
                ELSE [status_code |-> 422, body |-> <<>>]

C10_Independent ==
    /\ \A i \in Slots :
          Answered(i) =>
              LET alone == AloneReply(inflight[i].req, inflight[i].healthy)
              IN  /\ ResponseOf(i).status_code = alone.status_code
                  /\ alone.status_code # 422 => ResponseOf(i).body = alone.body
    /\ \A i, j \in Slots :
          (i # j /\ HoldsService(i) /\ HoldsService(j)) =>
              inflight[i].service # inflight[j].service
    /\ Cardinality(LiveServices) = Cardinality({i \in Slots : HoldsService(i)})
    /\ \A i \in Slots :
          /\ HoldsService(i) => inflight[i].service # <<>>
          /\ (Routed(i) /\ inflight[i].endpoint = "health") => inflight[i].healthy # <<>>

C10_Frame ==
    inflight' # inflight => UNCHANGED <<environ, api_module, server, stdout, outcome>>

\* C10: under any interleaving of concurrent echo, health and hello-world
\* requests each response is the one the request gets alone; every request
\* that needs the Service holds an instance of its own, and handling a request
\* changes no process-wide state (environment, catalog and metadata).
C10_RequestsIndependent == []C10_Independent /\ [][C10_Frame]_vars

\* C10 happens: two health requests are in flight at once, one handled with
\* the answer DOWN while the other still waits for its handler, each holding
\* its own Service.
C10_Witness ==
    \E i, j \in Slots :
        /\ i # j
        /\ inflight[i].phase = "handled" /\ inflight[i].endpoint = "health"
        /\ inflight[i].healthy = <<FALSE>>
        /\ inflight[j].phase = "ready" /\ inflight[j].route = "health"
        /\ inflight[i].service # inflight[j].service

====
